---- MODULE Spec2Model ----
(***************************************************************************)
(* Model of server/server.py: the Moodle REST gateway (moodle_request),    *)
(* the text helpers (_redact, shorten) and the six tool handlers.          *)
(*                                                                         *)
(* Strings whose characters matter (the access token, the argument of      *)
(* shorten) are sequences of one-character strings.  Message texts are     *)
(* sequences of fragments (a literal prefix, an interpolated value).       *)
(* Decoded JSON values are tagged records; a dict is a set of              *)
(* <<key, value>> pairs with distinct keys.                                *)
(***************************************************************************)
EXTENDS Integers, Sequences, FiniteSets, TLC

\* ------------------------------------------------------------- bounds ---
MaxTokenLen    == 5
MaxTextLen     == 4
MaxLimit       == 3
MaxInvocations == 2
MaxPage        == 1
MaxPerPage     == 2
MaxTotal       == 3
MaxCoroutines  == 2
MaxCalls       == 3

\* ---------------------------------------------------------- characters ---
\* The single character U+2026 (horizontal ellipsis).
Ellipsis == "..."
Space    == " "

Strings(alphabet, n) == UNION {[1..k -> alphabet] : k \in 0..n}

\* ------------------------------------------------------- JSON values ---
JNull    == [t |-> "null"]
JNum(n)  == [n |-> n, t |-> "num"]
JStr(s)  == [t |-> "str", s |-> s]
JList(l) == [t |-> "list", l |-> l]
JDict(d) == [t |-> "dict", d |-> d]

\* r.json() raising on a body that is not JSON
Undecodable == [t |-> "undecodable"]

\* isinstance(v, dict)
IsDict(v) == v.t = "dict"
\* isinstance(v, list)
IsList(v) == v.t = "list"
\* k in v, for a dict v
HasKey(v, k) == \E p \in v.d : p[1] = k
\* v.get(k, default), for a dict v
Get(v, k, default) == IF HasKey(v, k) THEN (CHOOSE p \in v.d : p[1] = k)[2] ELSE default
\* bool(v)
Truthy(v) ==
    CASE v.t = "null" -> FALSE
      [] v.t = "num"  -> v.n /= 0
      [] v.t = "str"  -> v.s /= <<>>
      [] v.t = "list" -> v.l /= <<>>
      [] v.t = "dict" -> v.d /= {}
\* len(v) is defined (otherwise TypeError)
HasLen(v) == v.t \in {"str", "list", "dict"}
\* the elements a for-loop over v visits (v has a length)
SetToSeq(S) == CHOOSE f \in [1..Cardinality(S) -> S] : \A x \in S : \E i \in DOMAIN f : f[i] = x
Iter(v) ==
    CASE v.t = "list" -> v.l
      [] v.t = "str"  -> [i \in 1..Len(v.s) |-> JStr(<<v.s[i]>>)]
      [] v.t = "dict" -> SetToSeq({JStr(<<p[1]>>) : p \in v.d})
\* str(v) as interpolated by an f-string
PyStr(v) ==
    CASE v.t = "null" -> <<"None">>
      [] v.t = "num"  -> <<ToString(v.n)>>
      [] v.t = "str"  -> v.s
      [] v.t = "list" -> <<"[...]">>
      [] v.t = "dict" -> <<"{...}">>

\* ------------------------------------------------------------ logging ---
Keep == 4

\* _redact leaving a token of at most `keep` characters as it is
_redact_short_unredacted(value, keep) ==
    IF value = <<>> THEN <<>>
    ELSE IF Len(value) > keep THEN SubSeq(value, 1, keep) \o <<Ellipsis>>
    ELSE value

_redact(value, keep) ==
    IF value = <<>> THEN <<>>
    ELSE IF Len(value) > keep THEN SubSeq(value, 1, keep) \o <<Ellipsis>>
    ELSE <<Ellipsis>>

\* one log record: the message and the value of its `token` extra, if any
LogRec(msg) == [msg |-> msg, hasToken |-> FALSE, token |-> <<>>]
LogTok(msg, tok) == [msg |-> msg, hasToken |-> TRUE, token |-> tok]

\* ------------------------------------------------------ configuration ---
\* MOODLE_BASE_URL after rstrip("/"), MOODLE_TOKEN, USE_AI, OPENAI_API_KEY
\* set, SMART_ID_GUARD enabled
BaseUrls == {"", "https://moodle.example"}
Config(base, token, useAI, apiKey, guard) ==
    [token |-> token, base |-> base, useAI |-> useAI, apiKey |-> apiKey, guard |-> guard]

\* the endpoint as <<base, path>>, or the empty string <<>>
API_ENDPOINT(c) == IF c.base /= "" THEN <<c.base, "/webservice/rest/server.php">> ELSE <<>>

\* _config_ok forgetting the token
_config_ok_base_only(c) == c.base /= "" /\ API_ENDPOINT(c) /= <<>>

_config_ok(c) == c.base /= "" /\ c.token /= <<>> /\ API_ENDPOINT(c) /= <<>>

\* ------------------------------------------------ upstream outcomes ---
NoUpstream == [kind |-> "none"]
NetFail    == [kind |-> "netfail"]
Http(status, body) == [kind |-> "http", status |-> status, body |-> body]

Statuses == {200, 404, 500}

\* r.raise_for_status() returns normally
IsSuccess(status) == status \in 200..299

\* ------------------------------------------------------- the gateway ---
Err(text) == JDict({<<"error", JStr(text)>>})
IsError(res) == IsDict(res) /\ HasKey(res, "error")

MissingConfig == <<"Missing MOODLE_BASE_URL or MOODLE_TOKEN in environment.">>

\* the exception Error dropping the upstream message
ExceptionErrorNoMessage(data) == Err(<<"Moodle error">>)

\* the Error returned for a decoded body carrying an exception
ExceptionError(data) == Err(<<"Moodle error: ">> \o PyStr(Get(data, "message", JNull)))

\* data.get("exception") selects the exception branch
HasException(data) == IsDict(data) /\ Truthy(Get(data, "exception", JNull))

\* the token value attached to the "Moodle request" debug record
LoggedToken(c) == _redact(c.token, Keep)

\* moodle_request(wsfunction, **params) against upstream outcome `up`:
\* the value returned, whether a POST was issued, the wstoken values
\* sent, and the log records emitted.
moodle_request(c, wsfunction, up) ==
    IF ~_config_ok(c)
    THEN [res |-> Err(MissingConfig), posted |-> FALSE, sent |-> {},
          log |-> {LogRec("Missing configuration")}]
    ELSE IF up.kind = "netfail"
    THEN [res |-> Err(<<"ConnectError">>), posted |-> TRUE, sent |-> {c.token},
          log |-> {LogRec("Moodle request failed")}]
    ELSE LET dbg == LogTok("Moodle request", LoggedToken(c)) IN
         IF ~IsSuccess(up.status)
         THEN [res |-> Err(<<"HTTP error: ", ToString(up.status)>>), posted |-> TRUE,
               sent |-> {c.token}, log |-> {dbg, LogRec("HTTP status error")}]
         ELSE IF up.body = Undecodable
         THEN [res |-> Err(<<"JSONDecodeError">>), posted |-> TRUE,
               sent |-> {c.token}, log |-> {dbg, LogRec("Moodle request failed")}]
         ELSE IF HasException(up.body)
         THEN [res |-> ExceptionError(up.body), posted |-> TRUE,
               sent |-> {c.token}, log |-> {dbg, LogRec("Moodle API exception")}]
         ELSE [res |-> up.body, posted |-> TRUE, sent |-> {c.token}, log |-> {dbg}]

\* ------------------------------------------------------- text helpers ---
RECURSIVE LStrip(_)
LStrip(s) == IF s /= <<>> /\ Head(s) = Space THEN LStrip(Tail(s)) ELSE s
RECURSIVE RStrip(_)
RStrip(s) == IF s /= <<>> /\ s[Len(s)] = Space THEN RStrip(SubSeq(s, 1, Len(s) - 1)) ELSE s
\* str.strip()
Strip(s) == RStrip(LStrip(s))

\* text[:k] for k >= 0
Prefix(s, k) == SubSeq(s, 1, IF k < Len(s) THEN k ELSE Len(s))

\* shorten cutting at limit instead of limit - 1
shorten_cut_at_limit(text, limit) ==
    LET t == Strip(text) IN
    IF Len(t) <= limit THEN t ELSE Prefix(t, limit) \o <<Ellipsis>>

shorten(text, limit) ==
    LET t == Strip(text) IN
    IF Len(t) <= limit THEN t ELSE Prefix(t, limit - 1) \o <<Ellipsis>>

fmt_err(resp) ==
    IF IsError(resp) THEN <<"Request failed: ">> \o PyStr(Get(resp, "error", JNull)) ELSE <<>>

\* ---------------------------------------------------- upstream bodies ---
Field(k, v) == <<k, v>>

Msgs == {<<"boom">>, <<"Invalid parameter value detected">>}

ExcBody(exc, msg) == JDict({Field("exception", exc), Field("message", JStr(msg))})

\* bodies carrying an `exception` key: truthy, empty-string and null values
ExcBodies ==
    {ExcBody(JStr(<<"moodle_exception">>), m) : m \in Msgs}
    \cup {JDict({Field("exception", JStr(<<"moodle_exception">>))})}
    \cup {ExcBody(JStr(<<>>), <<"boom">>), ExcBody(JNull, <<"boom">>)}

\* shapes any function may be answered with
GenericBodies ==
    {JNull, JNum(5), JList(<<>>), JList(<<JNum(5)>>),
     JDict({Field("error", JStr(<<"upstream says no">>))})} \cup ExcBodies

Course == JDict({Field("id", JNum(7)), Field("fullname", JStr(<<"Algebra">>))})
CourseEnrol ==
    JDict({Field("id", JNum(7)), Field("enrollmentmethods", JList(<<JStr(<<"manual">>)>>))})
CourseBadEnrol ==
    JDict({Field("id", JNum(7)), Field("enrollmentmethods", JList(<<JNum(5)>>))})
Forum == JDict({Field("id", JNum(3)), Field("name", JStr(<<"News">>))})
Discussion == JDict({Field("discussion", JNum(9)), Field("name", JStr(<<"Hello">>))})
Post == JDict({Field("id", JNum(1)),
               Field("author", JDict({Field("fullname", JStr(<<"Ann">>))})),
               Field("message", JStr(<<"<p>hi</p>">>))})
PostNoAuthor == JDict({Field("id", JNum(1)), Field("message", JStr(<<"<p>hi</p>">>))})
PostNullAuthor == JDict({Field("id", JNum(1)), Field("author", JNull)})

\* an object with the optional keys of `fields` present
Obj(fields) == JDict(fields)

SearchBodies ==
    LET totals  == {{}} \cup {{Field("total", JNull)}}
                   \cup {{Field("total", JNum(n))} : n \in 0..MaxTotal}
        courses == {{}} \cup {{Field("courses", v)} :
                       v \in {JNull, JNum(5), JList(<<>>), JList(<<Course>>),
                              JList(<<Course, Course>>), JList(<<JNum(5)>>)}}
    IN {Obj(t \cup c) : t \in totals, c \in courses}

CourseBodies ==
    {Obj({})} \cup {Obj({Field("courses", v)}) :
        v \in {JNull, JNum(5), JList(<<>>), JList(<<Course>>), JList(<<CourseEnrol>>),
               JList(<<CourseBadEnrol>>), JList(<<JNum(5)>>)}}

ForumBodies == {JList(<<Forum>>), JList(<<Forum, Forum>>), Obj({})}

DiscussionBodies ==
    {Obj({})} \cup {Obj({Field("discussions", v)}) :
        v \in {JNull, JNum(5), JList(<<>>), JList(<<Discussion>>), JList(<<JNum(5)>>)}}

PostBodies ==
    {Obj({}), ExcBody(JStr(<<"moodle_exception">>), <<"Discussion not found">>)}
    \cup {Obj({Field("posts", v)}) :
        v \in {JNull, JNum(5), JList(<<>>), JList(<<Post>>), JList(<<Post, PostNoAuthor>>),
               JList(<<PostNullAuthor>>), JList(<<JNum(5)>>)}}

WsFunctions ==
    {"core_course_search_courses", "core_course_get_courses_by_field",
     "mod_forum_get_forums_by_courses", "mod_forum_get_forum_discussions",
     "mod_forum_get_discussion_posts"}

Bodies(wsfunction) ==
    GenericBodies \cup
    CASE wsfunction = "core_course_search_courses"       -> SearchBodies
      [] wsfunction = "core_course_get_courses_by_field" -> CourseBodies
      [] wsfunction = "mod_forum_get_forums_by_courses"  -> ForumBodies
      [] wsfunction = "mod_forum_get_forum_discussions"  -> DiscussionBodies
      [] wsfunction = "mod_forum_get_discussion_posts"   -> PostBodies

\* bodies sent along with a failure status
FailureBodies == {JNull, ExcBody(JStr(<<"moodle_exception">>), <<"boom">>)}

\* what the network and the server can answer to one POST of wsfunction
Upstream(wsfunction) ==
    {NetFail}
    \cup {Http(200, b) : b \in Bodies(wsfunction) \cup {Undecodable}}
    \cup {Http(s, b) : s \in Statuses \ {200}, b \in FailureBodies}

\* no answer is consulted when the configuration check fails
UpstreamFor(c, wsfunction) == IF _config_ok(c) THEN Upstream(wsfunction) ELSE {NoUpstream}

\* ------------------------------------------------------------ outputs ---
\* What a handler hands back to the dispatch framework: the kind of string
\* returned (tag), the error text it carries, whether a usage tip or the
\* "More available" line is appended and the page that line names, the
\* number of records rendered; or tag "raise" with the exception type.
\* (Record fields are written in the order TLC keeps them in.)
Out(tag) == [n |-> 0, text |-> <<>>, tag |-> tag, hint |-> FALSE, more |-> FALSE, morePage |-> 0]
NoOut == Out("none")
ErrOut(err, hint) == [Out("error") EXCEPT !.text = err, !.hint = hint]
Raise(exc) == [Out("raise") EXCEPT !.text = <<exc>>]
Listing(tag, n) == [Out(tag) EXCEPT !.n = n]

\* every element visited by the loop answers .get()
AllDicts(seq) == \A i \in 1..Len(seq) : IsDict(seq[i])

\* the comparison with <= in place of <
MoreAvailableInclusive(page, perpage, total) == (page + 1) * perpage <= total

\* the comparison (page + 1) * perpage < total
MoreAvailable(page, perpage, total) == (page + 1) * perpage < total

\* search_courses after its Gateway call returned resp
search_courses(resp, page, perpage, as_json) ==
    LET err     == fmt_err(resp)
        total   == IF IsDict(resp) THEN Get(resp, "total", JNum(0)) ELSE JNum(0)
        courses == IF IsDict(resp) THEN Get(resp, "courses", JList(<<>>)) ELSE JList(<<>>)
    IN IF err /= <<>> THEN ErrOut(err, FALSE)
       ELSE IF ~HasLen(courses) THEN Raise("TypeError")
       ELSE IF ~Truthy(courses)
            THEN [Out("no_matching_courses") EXCEPT !.text = PyStr(total)]
       ELSE IF ~AllDicts(Iter(courses)) THEN Raise("AttributeError")
       ELSE IF as_json THEN Listing("courses_json", Len(Iter(courses)))
       ELSE IF total.t /= "num" THEN Raise("TypeError")
       ELSE LET more == MoreAvailable(page, perpage, total.n) IN
            [Listing("courses_text", Len(Iter(courses))) EXCEPT
                !.text = PyStr(total), !.more = more,
                !.morePage = IF more THEN page + 1 ELSE 0]

\* courses[0] evaluates (a non-empty list or string)
Subscriptable(v) == v.t \in {"list", "str"}

\* ', '.join(v) evaluates: v is iterable and yields only strings
Joinable(v) == HasLen(v) /\ \A i \in 1..Len(Iter(v)) : Iter(v)[i].t = "str"

\* confirm_course_by_id after its Gateway call returned resp
confirm_course_by_id(resp, as_json) ==
    LET err     == fmt_err(resp)
        courses == IF IsDict(resp) THEN Get(resp, "courses", JList(<<>>)) ELSE JList(<<>>)
    IN IF err /= <<>> THEN ErrOut(err, FALSE)
       ELSE IF ~Truthy(courses) THEN Out("no_course_found")
       ELSE IF ~Subscriptable(courses)
            THEN Raise(IF IsDict(courses) THEN "KeyError" ELSE "TypeError")
       ELSE LET c == Iter(courses)[1] IN
            IF ~IsDict(c) THEN Raise("AttributeError")
            ELSE IF as_json THEN Listing("course_json", 1)
            ELSE LET enrol == Get(c, "enrollmentmethods", JList(<<>>)) IN
                 IF Truthy(enrol) /\ ~Joinable(enrol) THEN Raise("TypeError")
                 ELSE Listing("course_text", 1)

\* the existence check accepting any object
CourseExistsAnyObject(check) == IsDict(check)

\* get_forums_by_course_id: the existence check lets the handler go on
CourseExists(check) == IsDict(check) /\ Truthy(Get(check, "courses", JNull))

\* get_forums_by_course_id after the existence call returned check;
\* NoOut when the handler goes on to the forums call
get_forums_check(check) ==
    LET err == fmt_err(check)
    IN IF err /= <<>> THEN ErrOut(err, FALSE)
       ELSE IF ~CourseExists(check) THEN Out("no_course_found")
       ELSE NoOut

\* get_forums_by_course_id after the forums call returned resp
get_forums_by_course_id(resp, as_json) ==
    LET err    == fmt_err(resp)
        forums == IF IsList(resp) THEN resp ELSE JList(<<>>)
    IN IF err /= <<>> THEN ErrOut(err, FALSE)
       ELSE IF ~Truthy(forums) THEN Out("no_forums")
       ELSE IF ~AllDicts(Iter(forums)) THEN Raise("AttributeError")
       ELSE Listing(IF as_json THEN "forums_json" ELSE "forums_text", Len(Iter(forums)))

\* list_forum_discussions after its Gateway call returned resp
list_forum_discussions(resp, as_json) ==
    LET err         == fmt_err(resp)
        discussions == IF IsDict(resp) THEN Get(resp, "discussions", JList(<<>>))
                       ELSE JList(<<>>)
    IN IF err /= <<>> THEN ErrOut(err, FALSE)
       ELSE IF ~HasLen(discussions) THEN Raise("TypeError")
       ELSE IF ~Truthy(discussions) THEN Out("no_discussions")
       ELSE IF ~AllDicts(Iter(discussions)) THEN Raise("AttributeError")
       ELSE Listing(IF as_json THEN "discussions_json" ELSE "discussions_text",
                    Len(Iter(discussions)))

\* the guard reading the probe as a bare list
GuardTriggeredOnList(probe) == IsList(probe) /\ Truthy(probe)

\* SMART_ID_GUARD: the probe result makes the handler stop
GuardTriggered(probe) == IsDict(probe) /\ Truthy(Get(probe, "discussions", JNull))

\* "Invalid parameter value" in err or "discussion" in err.lower()
HintFragments == {"Invalid parameter value detected", "Discussion not found"}
SuggestsWrongId(err) == \E i \in 1..Len(err) : err[i] \in HintFragments

\* p.get("author", {}).get("fullname", "Unknown") evaluates for every post
AuthorsReadable(seq) ==
    \A i \in 1..Len(seq) : IsDict(Get(seq[i], "author", JDict({})))

\* get_discussion_posts after the posts call returned resp
get_discussion_posts(resp, as_json) ==
    LET err   == fmt_err(resp)
        posts == IF IsDict(resp) THEN Get(resp, "posts", JList(<<>>))
                 ELSE IF Truthy(resp) THEN resp ELSE JList(<<>>)
    IN IF err /= <<>> THEN ErrOut(err, SuggestsWrongId(err))
       ELSE IF ~HasLen(posts) THEN Raise("TypeError")
       ELSE IF ~Truthy(posts) THEN Out("no_posts_found")
       ELSE IF ~AllDicts(Iter(posts)) \/ ~AuthorsReadable(Iter(posts))
            THEN Raise("AttributeError")
       ELSE Listing(IF as_json THEN "posts_json" ELSE "posts_text", Len(Iter(posts)))

\* json.loads(raw_json) succeeds: of the strings get_discussion_posts
\* returns, only the json.dumps(cleaned) one is JSON text
ParsesAsJson(raw) == raw.tag = "posts_json"

\* summarize_discussion after get_discussion_posts(as_json=True) gave raw;
\* NoOut when the handler goes on to the completion request
summarize_after_posts(raw) ==
    IF raw.tag = "raise" THEN raw
    ELSE IF ~ParsesAsJson(raw) THEN Out("failed_to_load_posts")
    ELSE IF raw.n = 0 THEN Out("no_posts_to_summarize")
    ELSE NoOut

\* USE_AI and os.getenv("OPENAI_API_KEY")
AiAvailable(c) == c.useAI /\ c.apiKey

\* -------------------------------------------------------------- state ---
VARIABLES
    cfg,          \* process-wide configuration, fixed at startup
    pc,           \* where the running invocation is suspended, "idle", "done"
    tool,         \* the tool (or helper) being run
    args,         \* its arguments
    calls,        \* Gateway calls of this invocation: function, upstream outcome, result
    raw,          \* summarize_discussion: what get_discussion_posts returned
    out,          \* what the invocation handed back
    netCalls,     \* HTTP POSTs issued since startup
    sent,         \* wstoken values put into request payloads since startup
    log,          \* records moodle_request emitted during this invocation
    aiclient,     \* _aiclient: "None" or "client"
    aiBuilt,      \* AsyncOpenAI() constructions since startup
    aiRequests,   \* completion requests issued since startup
    invocations,  \* invocations started since startup
    text,         \* shorten: argument text
    limit,        \* shorten: argument limit
    shortened,    \* shorten: returned value
    tpc,          \* shorten: "off", "ready", "done"
    coros         \* interleaved summarize_discussion coroutines: position,
                  \* client handle obtained from _ai(), result

vars == <<cfg, pc, tool, args, calls, raw, out, netCalls, sent, log, aiclient,
          aiBuilt, aiRequests, invocations, text, limit, shortened, tpc, coros>>

textVars == <<text, limit, shortened, tpc>>
aiVars   == <<aiclient, aiBuilt, aiRequests>>

\* ------------------------------------------------------------- inputs ---
TokenAlphabet == {"a", Ellipsis}
Tokens == Strings(TokenAlphabet, MaxTokenLen)
SampleToken == <<"s", "e", "c", "r", "e", "t">>

TextAlphabet == {"a", Space}
Texts == Strings(TextAlphabet, MaxTextLen)

Ids == {7}
NoArgs == [page |-> 0, perpage |-> 0, as_json |-> FALSE, id |-> 0]
Args(id, page, perpage, as_json) ==
    [page |-> page, perpage |-> perpage, as_json |-> as_json, id |-> id]

AIOutcomes == {"content", "no_content", "api_error"}

\* the coroutines that may be in flight at once
Coros == 1..MaxCoroutines

\* a coroutine: where it is suspended, the ordinal of the client object
\* _ai() gave it (0: _ai() not called), the kind of result it returned
Coro(at, handle, result) == [pc |-> at, handle |-> handle, result |-> result]
IdleCoro == Coro("idle", 0, "none")

\* --------------------------------------------------------------- init ---
Idle ==
    /\ pc = "idle"
    /\ tool = "none"
    /\ args = NoArgs
    /\ calls = <<>>
    /\ raw = NoOut
    /\ out = NoOut
    /\ log = {}

Fresh ==
    /\ Idle
    /\ netCalls = 0
    /\ sent = {}
    /\ aiclient = "None"
    /\ aiBuilt = 0
    /\ aiRequests = 0
    /\ invocations = 0
    /\ coros = [k \in Coros |-> IdleCoro]

TextOff == text = <<>> /\ limit = 1 /\ shortened = <<>> /\ tpc = "off"

\* the server after startup, for any environment
Init ==
    /\ cfg \in {Config(b, t, u, k, g) : b \in BaseUrls, t \in {<<>>, SampleToken},
                                        u \in BOOLEAN, k \in BOOLEAN, g \in BOOLEAN}
    /\ Fresh
    /\ TextOff

\* ------------------------------------------------------ Gateway steps ---
Res(wsfunction, up) == moodle_request(cfg, wsfunction, up).res

\* one await moodle_request(wsfunction, ...) answered by `up`
Request(wsfunction, up) ==
    LET r == moodle_request(cfg, wsfunction, up) IN
    /\ calls' = Append(calls, [res |-> r.res, up |-> up, fn |-> wsfunction])
    /\ netCalls' = netCalls + (IF r.posted THEN 1 ELSE 0)
    /\ sent' = sent \cup r.sent
    /\ log' = log \cup r.log

\* the handler returns (or raises) o
Finish(o) == out' = o /\ pc' = "done"

\* a handler is entered
Enter(t, a, at) ==
    /\ pc = "idle"
    /\ invocations < MaxInvocations
    /\ invocations' = invocations + 1
    /\ tool' = t
    /\ args' = a
    /\ pc' = at
    /\ UNCHANGED <<cfg, calls, raw, out, netCalls, sent, log, aiVars, textVars, coros>>

\* ------------------------------------------------------ the handlers ---
CallSearchCourses ==
    \E id \in Ids, page \in 0..MaxPage, perpage \in 1..MaxPerPage, j \in BOOLEAN :
        Enter("search_courses", Args(id, page, perpage, j), "search")

SearchCoursesStep ==
    /\ pc = "search"
    /\ \E up \in UpstreamFor(cfg, "core_course_search_courses") :
        /\ Request("core_course_search_courses", up)
        /\ Finish(search_courses(Res("core_course_search_courses", up),
                                 args.page, args.perpage, args.as_json))
    /\ UNCHANGED <<cfg, tool, args, raw, aiVars, invocations, textVars, coros>>

CallConfirmCourse ==
    \E id \in Ids, j \in BOOLEAN :
        Enter("confirm_course_by_id", Args(id, 0, 0, j), "confirm")

ConfirmCourseStep ==
    /\ pc = "confirm"
    /\ \E up \in UpstreamFor(cfg, "core_course_get_courses_by_field") :
        /\ Request("core_course_get_courses_by_field", up)
        /\ Finish(confirm_course_by_id(Res("core_course_get_courses_by_field", up),
                                       args.as_json))
    /\ UNCHANGED <<cfg, tool, args, raw, aiVars, invocations, textVars, coros>>

CallGetForums ==
    \E id \in Ids, j \in BOOLEAN :
        Enter("get_forums_by_course_id", Args(id, 0, 0, j), "forums_check")

ForumsCheckStep ==
    /\ pc = "forums_check"
    /\ \E up \in UpstreamFor(cfg, "core_course_get_courses_by_field") :
        LET o == get_forums_check(Res("core_course_get_courses_by_field", up)) IN
        /\ Request("core_course_get_courses_by_field", up)
        /\ IF o = NoOut THEN pc' = "forums_list" /\ out' = out ELSE Finish(o)
    /\ UNCHANGED <<cfg, tool, args, raw, aiVars, invocations, textVars, coros>>

ForumsListStep ==
    /\ pc = "forums_list"
    /\ \E up \in UpstreamFor(cfg, "mod_forum_get_forums_by_courses") :
        /\ Request("mod_forum_get_forums_by_courses", up)
        /\ Finish(get_forums_by_course_id(Res("mod_forum_get_forums_by_courses", up),
                                          args.as_json))
    /\ UNCHANGED <<cfg, tool, args, raw, aiVars, invocations, textVars, coros>>

CallListDiscussions ==
    \E id \in Ids, j \in BOOLEAN :
        Enter("list_forum_discussions", Args(id, 0, 0, j), "discussions")

ListDiscussionsStep ==
    /\ pc = "discussions"
    /\ \E up \in UpstreamFor(cfg, "mod_forum_get_forum_discussions") :
        /\ Request("mod_forum_get_forum_discussions", up)
        /\ Finish(list_forum_discussions(Res("mod_forum_get_forum_discussions", up),
                                         args.as_json))
    /\ UNCHANGED <<cfg, tool, args, raw, aiVars, invocations, textVars, coros>>

\* where get_discussion_posts first suspends
PostsEntry == IF cfg.guard THEN "posts_probe" ELSE "posts_fetch"

CallGetDiscussionPosts ==
    \E id \in Ids, j \in BOOLEAN :
        Enter("get_discussion_posts", Args(id, 0, 0, j), PostsEntry)

\* get_discussion_posts returns (or raises) o, to the framework or to
\* summarize_discussion, which runs on to its next suspension or return
Deliver(o) ==
    IF tool = "summarize_discussion"
    THEN /\ raw' = o
         /\ IF summarize_after_posts(o) = NoOut
            THEN pc' = "completion" /\ out' = out
            ELSE Finish(summarize_after_posts(o))
    ELSE /\ raw' = raw
         /\ Finish(o)

PostsProbeStep ==
    /\ pc = "posts_probe"
    /\ \E up \in UpstreamFor(cfg, "mod_forum_get_forum_discussions") :
        /\ Request("mod_forum_get_forum_discussions", up)
        /\ IF GuardTriggered(Res("mod_forum_get_forum_discussions", up))
           THEN Deliver(Out("forum_id_passed"))
           ELSE pc' = "posts_fetch" /\ UNCHANGED <<raw, out>>
    /\ UNCHANGED <<cfg, tool, args, aiVars, invocations, textVars, coros>>

PostsFetchStep ==
    /\ pc = "posts_fetch"
    /\ \E up \in UpstreamFor(cfg, "mod_forum_get_discussion_posts") :
        /\ Request("mod_forum_get_discussion_posts", up)
        /\ Deliver(get_discussion_posts(Res("mod_forum_get_discussion_posts", up),
                                        args.as_json))
    /\ UNCHANGED <<cfg, tool, args, aiVars, invocations, textVars, coros>>

CallSummarize ==
    \E id \in Ids :
        /\ Enter("summarize_discussion", Args(id, 0, 0, TRUE),
                 IF AiAvailable(cfg) THEN PostsEntry ELSE "unavailable")

SummarizeUnavailable ==
    /\ pc = "unavailable"
    /\ Finish(Out("ai_unavailable"))
    /\ UNCHANGED <<cfg, tool, args, calls, raw, netCalls, sent, log, aiVars,
                   invocations, textVars, coros>>

\* _ai()
\* the test skipped: a client is built on every call
AiBuildsAlways(client) == TRUE

\* `_aiclient is None`: _ai() constructs AsyncOpenAI()
AiBuilds(client) == client = "None"

_ai(client) == IF AiBuilds(client) THEN "client" ELSE client

\* await _ai().chat.completions.create(...) and the return statement
CompletionStep ==
    /\ pc = "completion"
    /\ aiclient' = _ai(aiclient)
    /\ aiBuilt' = aiBuilt + (IF AiBuilds(aiclient) THEN 1 ELSE 0)
    /\ aiRequests' = aiRequests + 1
    /\ \E o \in AIOutcomes :
        Finish(CASE o = "content"    -> Listing("summary", raw.n)
                 [] o = "no_content" -> Raise("AttributeError")
                 [] o = "api_error"  -> Raise("APIError"))
    /\ UNCHANGED <<cfg, tool, args, calls, raw, netCalls, sent, log, invocations, textVars, coros>>

\* the framework takes the result; the server waits for the next request
Return ==
    /\ pc = "done"
    /\ pc' = "idle"
    /\ tool' = "none"
    /\ args' = NoArgs
    /\ calls' = <<>>
    /\ raw' = NoOut
    /\ out' = NoOut
    /\ log' = {}
    /\ UNCHANGED <<cfg, netCalls, sent, aiVars, invocations, textVars, coros>>

Next ==
    \/ CallSearchCourses \/ SearchCoursesStep
    \/ CallConfirmCourse \/ ConfirmCourseStep
    \/ CallGetForums \/ ForumsCheckStep \/ ForumsListStep
    \/ CallListDiscussions \/ ListDiscussionsStep
    \/ CallGetDiscussionPosts \/ PostsProbeStep \/ PostsFetchStep
    \/ CallSummarize \/ SummarizeUnavailable \/ CompletionStep
    \/ Return

Spec == Init /\ [][Next]_vars

\* ------------------------------------------- the Gateway on its own ---
InitGateway ==
    /\ cfg \in {Config(b, t, FALSE, FALSE, TRUE) : b \in BaseUrls, t \in Tokens}
    /\ Fresh
    /\ TextOff

CallGateway ==
    \E f \in WsFunctions : Enter("moodle_request", [NoArgs EXCEPT !.id = 7], f)

GatewayStep ==
    /\ pc \in WsFunctions
    /\ \E up \in UpstreamFor(cfg, pc) :
        /\ Request(pc, up)
        /\ Finish(NoOut)
    /\ UNCHANGED <<cfg, tool, args, raw, aiVars, invocations, textVars, coros>>

NextGateway == CallGateway \/ GatewayStep \/ Return

SpecGateway == InitGateway /\ [][NextGateway]_vars

\* -------------------------------------------------- shorten on its own ---
InitText ==
    /\ cfg = Config("", <<>>, FALSE, FALSE, TRUE)
    /\ Fresh
    /\ text \in Texts
    /\ limit \in 1..MaxLimit
    /\ shortened = <<>>
    /\ tpc = "ready"

ShortenStep ==
    /\ tpc = "ready"
    /\ shortened' = shorten(text, limit)
    /\ tpc' = "done"
    /\ UNCHANGED <<cfg, pc, tool, args, calls, raw, out, netCalls, sent, log, aiVars,
                   invocations, text, limit, coros>>

NextText == ShortenStep

SpecText == InitText /\ [][NextText]_vars

\* ------------------------- summarize_discussion coroutines interleaved ---
\* Several summarize_discussion invocations in flight on the one event
\* loop: each runs from one await to the next without interruption, and
\* the others may run while it is suspended.
InitAsync ==
    /\ cfg \in {Config(b, t, u, k, g) : b \in BaseUrls, t \in {<<>>, SampleToken},
                                        u \in BOOLEAN, k \in BOOLEAN, g \in BOOLEAN}
    /\ Fresh
    /\ TextOff

\* the Gateway call of a coroutine, answered by `up`
AsyncRequest(wsfunction, up) ==
    LET r == moodle_request(cfg, wsfunction, up) IN
    /\ netCalls' = netCalls + (IF r.posted THEN 1 ELSE 0)
    /\ sent' = sent \cup r.sent

Suspend(k, at) == coros' = [coros EXCEPT ![k] = Coro(at, coros[k].handle, "none")]
Finished(k, o) == coros' = [coros EXCEPT ![k] = Coro("done", coros[k].handle, o.tag)]

handlerVars == <<pc, tool, args, calls, raw, out, log>>

\* summarize_discussion is entered and runs to its first await, or
\* returns at once when summarization is unavailable
AsyncCall(k) ==
    /\ coros[k].pc = "idle"
    /\ invocations < MaxCalls
    /\ invocations' = invocations + 1
    /\ IF AiAvailable(cfg) THEN Suspend(k, PostsEntry)
       ELSE Finished(k, Out("ai_unavailable"))
    /\ UNCHANGED <<cfg, handlerVars, netCalls, sent, aiVars, textVars>>

\* get_discussion_posts returned o to the coroutine, which runs on: to
\* its return, or through _ai() to the await of the completion request
AsyncDeliver(k, o) ==
    IF summarize_after_posts(o) = NoOut
    THEN /\ aiclient' = _ai(aiclient)
         /\ aiBuilt' = aiBuilt + (IF AiBuilds(aiclient) THEN 1 ELSE 0)
         /\ aiRequests' = aiRequests + 1
         /\ coros' = [coros EXCEPT ![k] = Coro("completion", aiBuilt', "none")]
    ELSE /\ Finished(k, summarize_after_posts(o))
         /\ UNCHANGED aiVars

\* the smart-guard probe is answered
AsyncProbe(k) ==
    /\ coros[k].pc = "posts_probe"
    /\ \E up \in UpstreamFor(cfg, "mod_forum_get_forum_discussions") :
        /\ AsyncRequest("mod_forum_get_forum_discussions", up)
        /\ IF GuardTriggered(Res("mod_forum_get_forum_discussions", up))
           THEN AsyncDeliver(k, Out("forum_id_passed"))
           ELSE Suspend(k, "posts_fetch") /\ UNCHANGED aiVars
    /\ UNCHANGED <<cfg, handlerVars, invocations, textVars>>

\* the posts call is answered
AsyncFetch(k) ==
    /\ coros[k].pc = "posts_fetch"
    /\ \E up \in UpstreamFor(cfg, "mod_forum_get_discussion_posts") :
        /\ AsyncRequest("mod_forum_get_discussion_posts", up)
        /\ AsyncDeliver(k, get_discussion_posts(Res("mod_forum_get_discussion_posts", up),
                                                TRUE))
    /\ UNCHANGED <<cfg, handlerVars, invocations, textVars>>

\* the completion request is answered (or fails)
AsyncCompletion(k) ==
    /\ coros[k].pc = "completion"
    /\ \E o \in AIOutcomes :
        Finished(k, CASE o = "content"    -> Out("summary")
                      [] o = "no_content" -> Raise("AttributeError")
                      [] o = "api_error"  -> Raise("APIError"))
    /\ UNCHANGED <<cfg, handlerVars, netCalls, sent, aiVars, invocations, textVars>>

\* the framework takes the coroutine's result
AsyncReturn(k) ==
    /\ coros[k].pc = "done"
    /\ coros' = [coros EXCEPT ![k] = IdleCoro]
    /\ UNCHANGED <<cfg, handlerVars, netCalls, sent, aiVars, invocations, textVars>>

NextAsync ==
    \E k \in Coros :
        \/ AsyncCall(k)
        \/ AsyncProbe(k)
        \/ AsyncFetch(k)
        \/ AsyncCompletion(k)
        \/ AsyncReturn(k)

SpecAsync == InitAsync /\ [][NextAsync]_vars

\* ============================================================ claims ===
Last(seq) == seq[Len(seq)]

\* part occurs in text as a run of consecutive fragments
Includes(txt, part) ==
    \E a \in 0..Len(txt) :
        a + Len(part) <= Len(txt) /\ SubSeq(txt, a + 1, a + Len(part)) = part

ErrorText(res) == PyStr(Get(res, "error", JNull))

NotConfigured == cfg.base = "" \/ cfg.token = <<>>

\* C1: while the base URL or the token is empty, every moodle_request of
\* the invocation returned the missing-configuration Error, and no HTTP
\* POST has been issued (nor any token sent) since startup, whatever tools
\* were invoked.
C1_NoNetworkWithoutConfig ==
    NotConfigured =>
        /\ netCalls = 0
        /\ sent = {}
        /\ \A i \in 1..Len(calls) :
            IsError(calls[i].res) /\ ErrorText(calls[i].res) = MissingConfig

C1_Witness ==
    /\ NotConfigured
    /\ invocations = 2
    /\ pc = "done"
    /\ Len(calls) = 2

\* the upstream answered call i with a decoded object whose `exception`
\* field is present and not null
ExceptionNotNull(up) ==
    /\ up.kind = "http"
    /\ up.body /= Undecodable
    /\ IsDict(up.body)
    /\ HasKey(up.body, "exception")
    /\ Get(up.body, "exception", JNull) /= JNull

ReportsMessage(c) ==
    /\ IsError(c.res)
    /\ Includes(ErrorText(c.res), PyStr(Get(c.up.body, "message", JNull)))

PostsFn == "mod_forum_get_discussion_posts"
ProbeFn == "mod_forum_get_forum_discussions"

\* the call returned an object with a non-empty `discussions` list
NonEmptyDiscussions(res) ==
    /\ IsDict(res)
    /\ IsList(Get(res, "discussions", JNull))
    /\ Get(res, "discussions", JNull).l /= <<>>

\* C3: with the smart guard on, a probe that returned a non-empty
\* discussions list ends get_discussion_posts with the corrective message
\* and without a posts call; and a posts call is always the second call,
\* made after a probe that did not return such a list.
C3_GuardStopsBeforePosts ==
    (cfg.guard /\ tool \in {"get_discussion_posts", "summarize_discussion"}) =>
        /\ (Len(calls) >= 1 /\ NonEmptyDiscussions(calls[1].res)) =>
            /\ Len(calls) = 1
            /\ pc = "done"
            /\ tool = "get_discussion_posts" => out = Out("forum_id_passed")
            /\ tool = "summarize_discussion" => raw = Out("forum_id_passed")
        /\ \A i \in 1..Len(calls) :
            calls[i].fn = PostsFn =>
                i = 2 /\ calls[1].fn = ProbeFn /\ ~NonEmptyDiscussions(calls[1].res)

C3_Witness ==
    /\ cfg.guard
    /\ tool = "get_discussion_posts"
    /\ pc = "done"
    /\ Len(calls) = 1
    /\ NonEmptyDiscussions(calls[1].res)
    /\ out.tag = "forum_id_passed"

CourseFn == "core_course_get_courses_by_field"
ForumsFn == "mod_forum_get_forums_by_courses"

\* the existence call returned no courses: not an object, or `courses`
\* missing, null or an empty list
EmptyOrMissingCourses(res) ==
    \/ ~IsDict(res)
    \/ ~HasKey(res, "courses")
    \/ Get(res, "courses", JNull) \in {JNull, JList(<<>>)}

NonEmptyCourseList(res) ==
    /\ IsDict(res)
    /\ IsList(Get(res, "courses", JNull))
    /\ Get(res, "courses", JNull).l /= <<>>

\* an Error or an empty/missing courses list ends the handler after the
\* existence call, with the error string or the not-found message
C4_ShortCircuit ==
    (tool = "get_forums_by_course_id" /\ Len(calls) >= 1) =>
        /\ IsError(calls[1].res) =>
            /\ Len(calls) = 1 /\ pc = "done"
            /\ out = ErrOut(<<"Request failed: ">> \o ErrorText(calls[1].res), FALSE)
        /\ (~IsError(calls[1].res) /\ EmptyOrMissingCourses(calls[1].res)) =>
            /\ Len(calls) = 1 /\ pc = "done"
            /\ out = Out("no_course_found")

\* C4 as stated: the forums call is the second call, made only after the
\* existence call returned a non-error result with a non-empty courses
\* list; otherwise the handler has returned without it.
C4_ForumsAfterCourseList ==
    /\ C4_ShortCircuit
    /\ \A i \in 1..Len(calls) :
        calls[i].fn = ForumsFn =>
            /\ i = 2 /\ calls[1].fn = CourseFn
            /\ ~IsError(calls[1].res)
            /\ NonEmptyCourseList(calls[1].res)

\* C4 (amended): the forums call is the second call, made only after the
\* existence call returned a non-error object whose `courses` value is
\* truthy (a non-empty list, or any other truthy JSON value); an Error or
\* an empty/missing courses list ends the handler without the forums call.
C4_ForumsAfterCourseCheck ==
    /\ C4_ShortCircuit
    /\ \A i \in 1..Len(calls) :
        calls[i].fn = ForumsFn =>
            /\ i = 2 /\ calls[1].fn = CourseFn
            /\ ~IsError(calls[1].res)
            /\ IsDict(calls[1].res)
            /\ Truthy(Get(calls[1].res, "courses", JNull))

C4_Witness ==
    /\ tool = "get_forums_by_course_id"
    /\ pc = "done"
    /\ Len(calls) = 2
    /\ calls[2].fn = ForumsFn
    /\ NonEmptyCourseList(calls[1].res)

\* C5: a Gateway call that returned an Error is the last call of its
\* invocation, and the invocation's output is that error's message,
\* with or without the usage hint.
C5_ErrorEndsHandler ==
    /\ \A i \in 1..Len(calls) : IsError(calls[i].res) => i = Len(calls) /\ pc = "done"
    /\ (pc = "done" /\ Len(calls) >= 1 /\ IsError(Last(calls).res)) =>
        /\ out.tag = "error"
        /\ out.text = <<"Request failed: ">> \o ErrorText(Last(calls).res)

NonAiTools ==
    {"search_courses", "confirm_course_by_id", "get_forums_by_course_id",
     "list_forum_discussions", "get_discussion_posts"}

\* C6: a non-AI handler always ends by returning a string; it never
\* raises to the dispatch framework.
C6_NeverRaises ==
    (pc = "done" /\ tool \in NonAiTools) => out.tag /= "raise"

\* the posts call succeeded with an empty post list
EmptyPostList(res) == IsDict(res) /\ Get(res, "posts", JNull) = JList(<<>>)

\* C7: summarize_discussion, when available, answers a discussion whose
\* posts call succeeded with an empty list by "No posts to summarize."
\* (and so without going on to the completion request).
C7_NoPostsToSummarize ==
    (/\ tool = "summarize_discussion"
     /\ AiAvailable(cfg)
     /\ Len(calls) >= 1
     /\ Last(calls).fn = PostsFn
     /\ EmptyPostList(Last(calls).res))
    => pc = "done" /\ out = Out("no_posts_to_summarize")

\* C8 as stated: shorten returns text itself when len(text) <= limit, and
\* otherwise the first limit-1 characters of text plus one ellipsis.
C8_ShortenOfText ==
    tpc = "done" =>
        /\ Len(text) <= limit => shortened = text
        /\ Len(text) > limit => shortened = SubSeq(text, 1, limit - 1) \o <<Ellipsis>>
        /\ Len(shortened) <= limit

NoOuterSpace(s) == s = <<>> \/ (s[1] /= Space /\ s[Len(s)] /= Space)

\* t is text without its leading and trailing whitespace
IsStripOf(t, s) ==
    /\ NoOuterSpace(t)
    /\ \E a \in 0..Len(s), b \in 0..Len(s) :
        /\ a + Len(t) + b = Len(s)
        /\ SubSeq(s, a + 1, a + Len(t)) = t
        /\ \A i \in 1..a : s[i] = Space
        /\ \A i \in (Len(s) - b + 1)..Len(s) : s[i] = Space

\* C8 (amended): with t the text stripped of surrounding whitespace,
\* shorten returns t when len(t) <= limit, and otherwise the first limit-1
\* characters of t plus one ellipsis; the result never exceeds limit.
C8_ShortenOfStripped ==
    tpc = "done" =>
        \E t \in Texts :
            /\ IsStripOf(t, text)
            /\ Len(t) <= limit => shortened = t
            /\ Len(t) > limit => shortened = SubSeq(t, 1, limit - 1) \o <<Ellipsis>>
            /\ Len(shortened) <= limit

C8_Witness ==
    /\ tpc = "done"
    /\ limit > 1
    /\ text /= <<>>
    /\ text[1] = Space
    /\ Len(shortened) = limit
    /\ shortened[limit] = Ellipsis

\* the record's token value shows at most the first Keep characters of
\* the token and ends with the ellipsis
Redacted(tok, token) ==
    /\ tok /= <<>>
    /\ Last(tok) = Ellipsis
    /\ Len(tok) - 1 <= Keep
    /\ Len(tok) - 1 <= Len(token)
    /\ SubSeq(tok, 1, Len(tok) - 1) = SubSeq(token, 1, Len(tok) - 1)

\* C9 as stated: for a non-empty token, the token value of every log
\* record is redacted and never the full token; the raw token appears
\* only in the payload.
C9_NeverFullToken ==
    cfg.token /= <<>> =>
        /\ \A r \in log : r.hasToken => Redacted(r.token, cfg.token)
        /\ \A r \in log : r.token /= cfg.token
        /\ sent \subseteq {cfg.token}

\* the token is itself a possible output of the redaction
RedactionShaped(token) ==
    \/ token = <<Ellipsis>>
    \/ Len(token) = Keep + 1 /\ Last(token) = Ellipsis

\* C9 (amended): for a non-empty token, the token value of every log
\* record shows at most the first 4 characters and ends with an
\* ellipsis; it differs from the full token unless the token itself is
\* the ellipsis alone or four characters followed by an ellipsis; the raw
\* token is otherwise only sent in the payload.
C9_TokenRedacted ==
    cfg.token /= <<>> =>
        /\ \A r \in log : r.hasToken => Redacted(r.token, cfg.token)
        /\ ~RedactionShaped(cfg.token) => \A r \in log : r.token /= cfg.token
        /\ sent \subseteq {cfg.token}

C9_Witness ==
    /\ pc = "done"
    /\ Len(cfg.token) > Keep
    /\ ~RedactionShaped(cfg.token)
    /\ sent = {cfg.token}
    /\ \E r \in log : r.hasToken /\ Len(r.token) = Keep + 1

\* the search answer: an object whose total is a number (0 when absent)
\* and whose courses, when present, is a list of course objects
CourseListAnswer(res) ==
    /\ IsDict(res)
    /\ ~IsError(res)
    /\ Get(res, "total", JNum(0)).t = "num"
    /\ IsList(Get(res, "courses", JList(<<>>)))
    /\ AllDicts(Get(res, "courses", JList(<<>>)).l)

TotalOf(res) == Get(res, "total", JNum(0)).n
ReturnedCourses(res) == Get(res, "courses", JList(<<>>)).l

SearchTextDone ==
    /\ pc = "done"
    /\ tool = "search_courses"
    /\ ~args.as_json
    /\ Len(calls) = 1
    /\ CourseListAnswer(calls[1].res)

\* C10 as stated: in text mode the output has the "More available" hint,
\* naming page+1, exactly when (page+1)*perpage < total, also for an
\* empty returned page.
C10_HintIffMore ==
    SearchTextDone =>
        /\ out.more <=> (args.page + 1) * args.perpage < TotalOf(calls[1].res)
        /\ out.more => out.morePage = args.page + 1

\* C10 (amended): in text mode the output has the "More available" hint,
\* naming page+1, exactly when the returned course list is non-empty and
\* (page+1)*perpage < total.
C10_HintIffMoreAndListed ==
    SearchTextDone =>
        /\ out.more <=> (/\ ReturnedCourses(calls[1].res) /= <<>>
                         /\ (args.page + 1) * args.perpage < TotalOf(calls[1].res))
        /\ out.more => out.morePage = args.page + 1

C10_Witness ==
    /\ SearchTextDone
    /\ out.more
    /\ args.page = 1
    /\ out.morePage = 2

\* C11: however summarize_discussion coroutines interleave at their
\* awaits, AsyncOpenAI() is constructed at most once; once built the
\* client stays in _aiclient, and every coroutine that called _ai() holds
\* that one client.
C11_ClientBuiltOnce ==
    /\ aiBuilt <= 1
    /\ aiclient = "None" <=> aiBuilt = 0
    /\ \A k \in Coros : coros[k].pc = "completion" => coros[k].handle = 1
    /\ \A k \in Coros : coros[k].handle \in {0, 1}

C11_Witness ==
    /\ aiBuilt = 1
    /\ aiRequests = 3
    /\ coros[1].pc = "completion"
    /\ coros[2].pc = "completion"
    /\ coros[1].handle = coros[2].handle

====
